---- MODULE Spec2Model ----
(***************************************************************************)
(* NIST CSF 2.0 control extractor (src/main.py).                           *)
(*                                                                         *)
(* Python values are tagged records [type, val].  Dictionaries are         *)
(* functions from keys to values; the dictionaries the program holds by    *)
(* reference (the document and its catalog) live in `heap`, so that two    *)
(* names for one dictionary see each other's assignments.                  *)
(*                                                                         *)
(* Spec    : one run of main().                                            *)
(* ApiSpec : a caller of extract_controls_by_id, who may hand the          *)
(*           returned document back to it.                                 *)
(***************************************************************************)
EXTENDS Integers, Sequences, FiniteSets, TLC

VARIABLES
    pc,             \* position in main() / in the calling program
    args,           \* argparse namespace: controls, summary
    infile,         \* what is stored at args.input
    outfile,        \* what is stored at args.output
    heap,           \* address -> dictionary
    nist_data,      \* address of the loaded / passed document (0: unbound)
    control_ids,    \* list of requested identifiers
    filtered_data,  \* address of the returned document (0: unbound)
    pre_heap,       \* heap at entry of the last extract_controls_by_id call
    report,         \* missing_ids of the last call and whether the warning was printed
    raised,         \* exception that ended the last step ("none" if it returned)
    steps,          \* collaborators called so far, in call order
    exit_code,      \* value returned by main() (-1 while running)
    calls           \* number of extract_controls_by_id calls made

vars == <<pc, args, infile, outfile, heap, nist_data, control_ids, filtered_data,
          pre_heap, report, raised, steps, exit_code, calls>>

----------------------------------------------------------------------------
(* Bounds *)

MaxControls == 2
MaxIds == 2

----------------------------------------------------------------------------
(* Python values *)

PyNone == [type |-> "NoneType"]
PyStr(s) == [type |-> "str", val |-> s]
PyInt(n) == [type |-> "int", val |-> n]
PyList(q) == [type |-> "list", val |-> q]
PyDict(d) == [type |-> "dict", val |-> d]
PyRef(a) == [type |-> "ref", val |-> a]

EmptyDict == [k \in {} |-> PyNone]

\* d.get(k, default)
Get(d, k, default) == IF k \in DOMAIN d THEN d[k] ELSE default

\* d[k] = v
Put(d, k, v) == [x \in (DOMAIN d) \cup {k} |-> IF x = k THEN v ELSE d[x]]

Range(q) == {q[i] : i \in DOMAIN q}

Digit == <<"0", "1", "2", "3", "4", "5", "6", "7", "8", "9">>

\* str(n) for n >= 0, as an f-string renders it
RECURSIVE IntToStr(_)
IntToStr(n) ==
    IF n < 10 THEN Digit[n + 1]
    ELSE IntToStr(n \div 10) \o Digit[(n % 10) + 1]

----------------------------------------------------------------------------
(* main(): the built-in list *)

TARGET_CONTROL_IDS ==
    << "ID.AM-03", "ID.AM-07", "ID.AM-08", "ID.IM-01", "ID.IM-02", "ID.IM-03",
       "ID.RA-01", "ID.RA-07", "PR.AA-05", "PR.DS-01", "PR.DS-02", "PR.DS-10",
       "PR.IR-01", "PR.PS-01", "PR.PS-05", "DE.AE-02", "DE.AE-03", "DE.CM-01",
       "DE.CM-02", "DE.CM-03", "DE.CM-06", "DE.CM-09" >>

----------------------------------------------------------------------------
(* load_nist_csf_file / save_filtered_controls: text <-> objects *)

\* json.load: the document and its catalog become two dictionaries, the
\* first holding a reference to the second
JsonLoad(tree) ==
    IF "catalog" \in DOMAIN tree.val
    THEN (1 :> Put(tree.val, "catalog", PyRef(2))) @@ (2 :> tree.val["catalog"].val)
    ELSE (1 :> tree.val)

\* json.dump: what is reachable from the document, written out as one text
JsonDump(h, a) ==
    PyDict([k \in DOMAIN h[a] |->
              IF h[a][k].type = "ref" THEN PyDict(h[h[a][k].val]) ELSE h[a][k]])

----------------------------------------------------------------------------
(* extract_controls_by_id *)

NewAddr(h) == Cardinality(DOMAIN h) + 1

\* data.copy(): a new dictionary with the same keys and the same values
\* (references are copied, the dictionaries they point to are not)
DictCopy(h, data) == (NewAddr(h) :> h[data]) @@ h

\* 'catalog' in data and 'securityControls' in data['catalog']
HasStructure(h, data) ==
    /\ "catalog" \in DOMAIN h[data]
    /\ "securityControls" \in DOMAIN h[h[data]["catalog"].val]

\* mutant: the entry is indexed, control['controlId'], which raises when
\* the key is absent
HasControlIdKey(control) == control.type = "dict" /\ "controlId" \in DOMAIN control.val

\* whether control.get exists
HasGet(control) == control.type = "dict"

\* control.get('controlId')
ControlId(control) == Get(control.val, "controlId", PyNone)

\* x in control_ids, control_ids a list of str
PyIn(x, ids) == \E i \in DOMAIN ids : x.type = "str" /\ x.val = ids[i]

\* mutant: any string controlId matches
MatchesAnyString(control, ids) == ControlId(control).type = "str"

\* control.get('controlId') in control_ids
Matches(control, ids) == PyIn(ControlId(control), ids)

\* mutant: a control whose controlId was already found is skipped
RECURSIVE FilterLoopDedup(_, _, _, _)
FilterLoopDedup(original_controls, ids, i, acc) ==
    IF i > Len(original_controls) THEN acc
    ELSE LET control == original_controls[i] IN
         IF ~HasGet(control) THEN [acc EXCEPT !.raised = "AttributeError"]
         ELSE IF Matches(control, ids) /\ ControlId(control) \notin acc.found_ids
         THEN FilterLoopDedup(original_controls, ids, i + 1,
                  [acc EXCEPT !.filtered_controls = Append(@, control),
                              !.found_ids = @ \cup {ControlId(control)}])
         ELSE FilterLoopDedup(original_controls, ids, i + 1, acc)

\* mutant: the loop starts at the second control
RECURSIVE FilterLoopSkipFirst(_, _, _, _)
FilterLoopSkipFirst(original_controls, ids, i, acc) ==
    IF i > Len(original_controls) THEN acc
    ELSE LET control == original_controls[i] IN
         IF ~HasGet(control) THEN [acc EXCEPT !.raised = "AttributeError"]
         ELSE IF i > 1 /\ Matches(control, ids)
         THEN FilterLoopSkipFirst(original_controls, ids, i + 1,
                  [acc EXCEPT !.filtered_controls = Append(@, control),
                              !.found_ids = @ \cup {ControlId(control)}])
         ELSE FilterLoopSkipFirst(original_controls, ids, i + 1, acc)

\* the for loop over original_controls, from entry i on
RECURSIVE FilterLoop(_, _, _, _)
FilterLoop(original_controls, ids, i, acc) ==
    IF i > Len(original_controls) THEN acc
    ELSE LET control == original_controls[i] IN
         IF ~HasGet(control) THEN [acc EXCEPT !.raised = "AttributeError"]
         ELSE IF Matches(control, ids)
         THEN FilterLoop(original_controls, ids, i + 1,
                  [acc EXCEPT !.filtered_controls = Append(@, control),
                              !.found_ids = @ \cup {ControlId(control)}])
         ELSE FilterLoop(original_controls, ids, i + 1, acc)

\* mutant: found_ids is not subtracted
MissingIdsAll(ids, found_ids) == Range(ids)

\* set(control_ids) - found_ids
MissingIds(ids, found_ids) == {s \in Range(ids) : PyStr(s) \notin found_ids}

\* f"{v}"
Format(v) == IF v.type = "int" THEN IntToStr(v.val) ELSE v.val

\* mutant: the title is replaced, not appended to
FilteredTitleReplaced(original_title, n) ==
    "Filtered - " \o IntToStr(n) \o " controls"

\* f"{original_title} (Filtered - {len(filtered_controls)} controls)"
FilteredTitle(original_title, n) ==
    Format(original_title) \o " (Filtered - " \o IntToStr(n) \o " controls)"

\* the description f-string
FilteredDescription(original_description, n) ==
    Format(original_description) \o "\n\n"
    \o "<p><strong>Note:</strong> This is a filtered version containing only "
    \o IntToStr(n)
    \o " specific controls extracted from the original framework.</p>"

Raise(h, exc) ==
    [raised |-> exc, heap |-> h, ret |-> 0, missing_ids |-> {}, warned |-> FALSE]

\* The whole function.  Returns the exception raised (or "none"), the heap
\* it leaves, the address it returns, missing_ids and whether the warning
\* line was printed.
ExtractControlsById(h, data, ids) ==
    LET filtered_data_ == NewAddr(h)
        h1 == DictCopy(h, data)
    IN  IF ~HasStructure(h, data) THEN Raise(h, "ValueError")
        ELSE
        LET original_controls == h[h[data]["catalog"].val]["securityControls"].val
            loop == FilterLoop(original_controls, ids, 1,
                       [raised |-> "none", filtered_controls |-> <<>>, found_ids |-> {}])
        IN  IF loop.raised # "none" THEN Raise(h, loop.raised)
            ELSE
            LET n == Len(loop.filtered_controls)
                missing_ids == MissingIds(ids, loop.found_ids)
                cat == h1[filtered_data_]["catalog"].val
                h2 == [h1 EXCEPT ![cat] =
                          Put(@, "securityControls", PyList(loop.filtered_controls))]
                original_title == Get(h2[cat], "title", PyStr("NIST CSF 2.0"))
                h3 == [h2 EXCEPT ![cat] =
                          Put(@, "title", PyStr(FilteredTitle(original_title, n)))]
                original_description == Get(h3[cat], "description", PyStr(""))
                h4 == [h3 EXCEPT ![cat] =
                          Put(@, "description",
                              PyStr(FilteredDescription(original_description, n)))]
            IN  [raised |-> "none", heap |-> h4, ret |-> filtered_data_,
                 missing_ids |-> missing_ids, warned |-> missing_ids # {}]

----------------------------------------------------------------------------
(* Inputs *)

Absent == [type |-> "absent"]

\* the dictionary with the keys of r that are not Absent
DictOf(r) == [k \in {x \in DOMAIN r : r[x].type # "absent"} |-> r[k]]

Control(id, title) == PyDict(DictOf([controlId |-> id, title |-> PyStr(title)]))

ControlPool ==
    { Control(PyStr("ID.AM-03"), "Software inventory"),
      Control(PyStr("ID.AM-03"), "Software inventory (copy)"),
      Control(PyStr("PR.DS-01"), "Data at rest"),
      Control(PyStr("GV.OC-01"), "Mission"),
      Control(Absent, "No identifier"),
      Control(PyInt(7), "Numeric identifier"),
      PyStr("not a mapping") }

ControlLists == UNION {[1..n -> ControlPool] : n \in 0..MaxControls}

Catalogs ==
    { DictOf([title |-> t, description |-> d, securityControls |-> sc]) :
        t \in {Absent, PyStr("NIST CSF 2.0 Catalog")},
        d \in {Absent, PyStr("<p>Framework</p>")},
        sc \in {Absent} \cup {PyList(q) : q \in ControlLists} }

Documents ==
    {PyDict(DictOf([catalog |-> c])) : c \in {Absent} \cup {PyDict(c) : c \in Catalogs}}

IdPool == {"ID.AM-03", "PR.DS-01", "ZZ.ZZ-99"}

IdLists == UNION {[1..n -> IdPool] : n \in 0..MaxIds}

NoReport == [missing_ids |-> {}, warned |-> FALSE]

----------------------------------------------------------------------------
(* A caller of extract_controls_by_id *)

ApiInit ==
    /\ \E doc \in Documents : heap = JsonLoad(doc)
    /\ control_ids \in IdLists
    /\ nist_data = 1
    /\ filtered_data = 0
    /\ pre_heap = heap
    /\ pc = "caller"
    /\ args = PyNone
    /\ infile = PyNone
    /\ outfile = PyNone
    /\ report = NoReport
    /\ raised = "none"
    /\ steps = <<>>
    /\ exit_code = -1
    /\ calls = 0

\* filtered = extract_controls_by_id(data, control_ids)
Call(data) ==
    LET r == ExtractControlsById(heap, data, control_ids) IN
    /\ pre_heap' = heap
    /\ heap' = r.heap
    /\ nist_data' = data
    /\ filtered_data' = r.ret
    /\ raised' = r.raised
    /\ report' = [missing_ids |-> r.missing_ids, warned |-> r.warned]
    /\ calls' = calls + 1
    /\ pc' = IF r.raised = "none" THEN "returned" ELSE "raised"
    /\ UNCHANGED <<args, infile, outfile, control_ids, steps, exit_code>>

ApiCall == pc = "caller" /\ Call(nist_data)

\* the returned document is filtered again with the same list
ApiRefilter == pc = "returned" /\ calls = 1 /\ Call(filtered_data)

ApiNext == ApiCall \/ ApiRefilter

ApiSpec == ApiInit /\ [][ApiNext]_vars

----------------------------------------------------------------------------
(* main() *)

\* what a file path may hold: nothing, text that is not JSON, a document
Files == {Absent, PyStr("{not json")} \cup Documents

\* bool(x) of None or a list
Truthy(x) == x.type = "list" /\ Len(x.val) > 0

Init ==
    /\ args \in [controls : {PyNone} \cup {PyList(q) : q \in IdLists},
                 summary : BOOLEAN]
    /\ infile \in Files
    /\ outfile = Absent
    /\ heap = EmptyDict
    /\ nist_data = 0
    /\ control_ids = <<>>
    /\ filtered_data = 0
    /\ pre_heap = EmptyDict
    /\ report = NoReport
    /\ raised = "none"
    /\ steps = <<>>
    /\ exit_code = -1
    /\ calls = 0
    /\ pc = "start"

\* control_ids = args.controls if args.controls else TARGET_CONTROL_IDS
SelectControlIds ==
    /\ pc = "start"
    /\ control_ids' = IF Truthy(args.controls) THEN args.controls.val
                      ELSE TARGET_CONTROL_IDS
    /\ pc' = "try"
    /\ UNCHANGED <<args, infile, outfile, heap, nist_data, filtered_data, pre_heap,
                   report, raised, steps, exit_code, calls>>

\* mutant: the handler reports the error and falls through to return 0
HandlerReturns0(exc) ==
    /\ raised' = exc
    /\ exit_code' = 0
    /\ pc' = "exit"

\* except Exception as e: print(f"Error: {e}"); return 1
Handler(exc) ==
    /\ raised' = exc
    /\ exit_code' = 1
    /\ pc' = "exit"

\* mutant: a missing file is read as an empty document
LoadMissingAsEmpty ==
    /\ pc = "try"
    /\ steps' = Append(steps, "load")
    /\ IF infile.type = "dict"
       THEN heap' = JsonLoad(infile)
       ELSE heap' = (1 :> EmptyDict)
    /\ nist_data' = 1
    /\ pc' = "loaded"
    /\ UNCHANGED <<args, infile, outfile, control_ids, filtered_data, pre_heap,
                   report, calls, raised, exit_code>>

\* nist_data = load_nist_csf_file(args.input)
Load ==
    /\ pc = "try"
    /\ steps' = Append(steps, "load")
    /\ IF infile.type = "absent"
       THEN Handler("FileNotFoundError") /\ UNCHANGED <<heap, nist_data>>
       ELSE IF infile.type # "dict"
       \* json.JSONDecodeError(msg) lacks its doc and pos arguments
       THEN Handler("TypeError") /\ UNCHANGED <<heap, nist_data>>
       ELSE /\ heap' = JsonLoad(infile)
            /\ nist_data' = 1
            /\ pc' = "loaded"
            /\ UNCHANGED <<raised, exit_code>>
    /\ UNCHANGED <<args, infile, outfile, control_ids, filtered_data, pre_heap,
                   report, calls>>

\* filtered_data = extract_controls_by_id(nist_data, control_ids)
Extract ==
    /\ pc = "loaded"
    /\ steps' = Append(steps, "extract")
    /\ LET r == ExtractControlsById(heap, nist_data, control_ids) IN
       /\ pre_heap' = heap
       /\ heap' = r.heap
       /\ filtered_data' = r.ret
       /\ report' = [missing_ids |-> r.missing_ids, warned |-> r.warned]
       /\ calls' = calls + 1
       /\ IF r.raised = "none"
          THEN pc' = "extracted" /\ UNCHANGED <<raised, exit_code>>
          ELSE Handler(r.raised)
    /\ UNCHANGED <<args, infile, outfile, nist_data, control_ids>>

\* save_filtered_controls(filtered_data, args.output): open(.., 'w') may
\* fail, and so may the write after the file was opened (and truncated)
Save ==
    /\ pc = "extracted"
    /\ steps' = Append(steps, "save")
    /\ \E disk \in {"ok", "open fails", "write fails"} :
         CASE disk = "ok" ->
                /\ outfile' = JsonDump(heap, filtered_data)
                /\ pc' = "saved"
                /\ UNCHANGED <<raised, exit_code>>
           [] disk = "open fails" ->
                /\ Handler("Exception")
                /\ UNCHANGED outfile
           [] disk = "write fails" ->
                /\ Handler("Exception")
                /\ outfile' = PyStr("{")
    /\ UNCHANGED <<args, infile, heap, nist_data, control_ids, filtered_data,
                   pre_heap, report, calls>>

\* if args.summary: print_control_summary(filtered_data)
PrintControlSummary ==
    /\ pc = "saved"
    /\ args.summary
    /\ steps' = Append(steps, "summary")
    /\ pc' = "summarised"
    /\ UNCHANGED <<args, infile, outfile, heap, nist_data, control_ids,
                   filtered_data, pre_heap, report, raised, exit_code, calls>>

\* print("Successfully extracted ..."); return 0
Return0 ==
    /\ \/ pc = "saved" /\ ~args.summary
       \/ pc = "summarised"
    /\ exit_code' = 0
    /\ pc' = "exit"
    /\ UNCHANGED <<args, infile, outfile, heap, nist_data, control_ids,
                   filtered_data, pre_heap, report, raised, steps, calls>>

Next == SelectControlIds \/ Load \/ Extract \/ Save \/ PrintControlSummary \/ Return0

Spec == Init /\ [][Next]_vars

----------------------------------------------------------------------------
(* Vocabulary of the properties *)

\* the catalog dictionary of document d in heap h
CatalogOf(h, d) == h[h[d]["catalog"].val]

\* the document has the keys catalog and catalog.securityControls
WellShaped(h, d) ==
    /\ "catalog" \in DOMAIN h[d]
    /\ "securityControls" \in DOMAIN CatalogOf(h, d)

\* the catalog handed to the last call, as it was at the call
OrigCatalog == CatalogOf(pre_heap, nist_data)
OrigControls == OrigCatalog["securityControls"].val

\* the catalog of the document the last call returned
OutCatalog == CatalogOf(heap, filtered_data)
OutControls == OutCatalog["securityControls"].val

IsMapping(c) == c.type = "dict"

\* c is a mapping whose controlId is a string of the set S
IdIn(c, S) ==
    /\ IsMapping(c)
    /\ "controlId" \in DOMAIN c.val
    /\ c.val["controlId"].type = "str"
    /\ c.val["controlId"].val \in S

\* c is a mapping whose controlId is absent or is not a string
Malformed(c) ==
    /\ IsMapping(c)
    /\ \/ "controlId" \notin DOMAIN c.val
       \/ c.val["controlId"].type # "str"

\* the entries of q whose controlId is in S, in the order of q
Keep(q, S) == LET Test(c) == IdIn(c, S) IN SelectSeq(q, Test)

TitleSuffix(n) == " (Filtered - " \o ToString(n) \o " controls)"

DescriptionNote(n) ==
    "\n\n<p><strong>Note:</strong> This is a filtered version containing only "
    \o ToString(n) \o " specific controls extracted from the original framework.</p>"

\* the last call of the calling program returned a document
ApiReturned == pc = "returned"

----------------------------------------------------------------------------
(* C1 *)

\* C1: after extract_controls_by_id(D, S) returns, the catalog reached through
\* the caller's document D is the one it was before the call (same title,
\* description and securityControls).
C1_OriginalUnaltered ==
    ApiReturned => CatalogOf(heap, nist_data) = OrigCatalog

----------------------------------------------------------------------------
(* C2 *)

\* C2: every control of the returned list has a controlId that is a member of
\* S, and every control of D whose controlId is a member of S is in the
\* returned list.
C2_SoundAndComplete ==
    ApiReturned =>
        /\ \A j \in DOMAIN OutControls : IdIn(OutControls[j], Range(control_ids))
        /\ \A i \in DOMAIN OrigControls :
              IdIn(OrigControls[i], Range(control_ids))
                  => \E j \in DOMAIN OutControls : OutControls[j] = OrigControls[i]

\* a call that kept one control and dropped another
C2_Witness ==
    /\ ApiReturned
    /\ Len(OutControls) >= 1
    /\ \E i \in DOMAIN OrigControls :
          /\ IsMapping(OrigControls[i])
          /\ ControlId(OrigControls[i]).type = "str"
          /\ ~IdIn(OrigControls[i], Range(control_ids))

----------------------------------------------------------------------------
(* C3 *)

\* the control list extract_controls_by_id(D, S2) would have returned for the
\* document of the last call, <<"raised">> if it raises
ListFor(S2) ==
    LET r == ExtractControlsById(pre_heap, nist_data, S2) IN
    IF r.raised # "none" THEN <<"raised">>
    ELSE CatalogOf(r.heap, r.ret)["securityControls"].val

\* C3: the returned list is the subsequence of D's controls, in catalog order,
\* made of exactly the controls whose controlId is requested; a list S2 with
\* the same members as S (a permutation of it, or S with entries repeated)
\* gives the same list.
C3_CatalogOrderSubsequence ==
    ApiReturned =>
        /\ OutControls = Keep(OrigControls, Range(control_ids))
        /\ \A S2 \in IdLists :
              Range(S2) = Range(control_ids) => ListFor(S2) = OutControls

\* two controls are returned in catalog order, the reverse of the order in
\* which their identifiers were requested
C3_Witness ==
    /\ ApiReturned
    /\ Len(control_ids) = 2
    /\ control_ids[1] # control_ids[2]
    /\ Len(OutControls) = 2
    /\ ControlId(OutControls[1]).val = control_ids[2]
    /\ ControlId(OutControls[2]).val = control_ids[1]

----------------------------------------------------------------------------
(* C5 *)

\* C5: with N the length of the returned control list, the returned title is
\* D's title followed by " (Filtered - N controls)" and the returned
\* description is D's description (empty when D has none) followed by a blank
\* line and the note stating N.
C5_Annotations ==
    ApiReturned =>
        LET n == Len(OutControls) IN
        /\ "title" \in DOMAIN OrigCatalog =>
              OutCatalog["title"] = PyStr(OrigCatalog["title"].val \o TitleSuffix(n))
        /\ OutCatalog["description"] =
              PyStr((IF "description" \in DOMAIN OrigCatalog
                     THEN OrigCatalog["description"].val ELSE "")
                    \o DescriptionNote(n))

\* a titled document without description, filtered down to fewer controls
C5_Witness ==
    /\ ApiReturned
    /\ calls = 1
    /\ "title" \in DOMAIN OrigCatalog
    /\ "description" \notin DOMAIN OrigCatalog
    /\ Len(OutControls) >= 1
    /\ Len(OutControls) < Len(OrigControls)

----------------------------------------------------------------------------
(* C6 *)

\* C6: filtering the returned document again with the same list returns the
\* same control list, and the annotations compound: the title then carries
\* the suffix twice and the description the note twice.
C6_RefilterIdempotent ==
    (ApiReturned /\ calls = 2) =>
        LET n == Len(OutControls) IN
        /\ OutControls = OrigControls
        /\ \E t \in {"NIST CSF 2.0 Catalog", "NIST CSF 2.0"} :
              /\ OrigCatalog["title"].val = t \o TitleSuffix(n)
              /\ OutCatalog["title"].val = t \o TitleSuffix(n) \o TitleSuffix(n)
        /\ \E d \in {"<p>Framework</p>", ""} :
              /\ OrigCatalog["description"].val = d \o DescriptionNote(n)
              /\ OutCatalog["description"].val
                    = d \o DescriptionNote(n) \o DescriptionNote(n)

\* a second filtering of a document that kept two controls
C6_Witness ==
    /\ ApiReturned
    /\ calls = 2
    /\ Len(OutControls) = 2

----------------------------------------------------------------------------
(* C10 *)

\* C10: in a document whose control entries are all mappings, a control whose
\* controlId is absent or not a string does not make the call fail, is not
\* in the returned list, is not counted, and the matching controls after it
\* are still returned.
C10_MalformedTolerated ==
    (calls >= 1 /\ WellShaped(pre_heap, nist_data)
               /\ \A i \in DOMAIN OrigControls : IsMapping(OrigControls[i])) =>
        /\ raised = "none"
        /\ ApiReturned
        /\ \A i \in DOMAIN OrigControls :
              Malformed(OrigControls[i]) =>
                  /\ \A S2 \in IdLists : ~Matches(OrigControls[i], S2)
                  /\ OrigControls[i] \notin Range(OutControls)
                  /\ \A k \in DOMAIN OrigControls :
                        (k > i /\ IdIn(OrigControls[k], Range(control_ids)))
                            => OrigControls[k] \in Range(OutControls)
        /\ Len(OutControls) =
              Cardinality({i \in DOMAIN OrigControls :
                              IdIn(OrigControls[i], Range(control_ids))})

\* a control without controlId, followed by a requested control that is returned
C10_Witness ==
    /\ ApiReturned
    /\ Len(OrigControls) = 2
    /\ IsMapping(OrigControls[1])
    /\ "controlId" \notin DOMAIN OrigControls[1].val
    /\ OutControls = <<OrigControls[2]>>

----------------------------------------------------------------------------
(* Vocabulary of the properties of main() *)

\* the input path holds a JSON document
Loadable == infile.type = "dict"

\* the stored document has catalog.securityControls
FileShaped ==
    /\ Loadable
    /\ "catalog" \in DOMAIN infile.val
    /\ "securityControls" \in DOMAIN infile.val["catalog"].val

\* the stored document has catalog.securityControls and every entry of it is a mapping
Filterable ==
    /\ FileShaped
    /\ \A c \in Range(infile.val["catalog"].val["securityControls"].val) : IsMapping(c)

\* the output path holds a complete document
Written == outfile.type = "dict"

Exited == pc = "exit"

\* the transform of this run returned a document
Extracted == filtered_data # 0

IsPrefix(p, q) == Len(p) <= Len(q) /\ \A i \in DOMAIN p : p[i] = q[i]

----------------------------------------------------------------------------
(* C4 *)

\* C4: on a document without catalog, or without catalog.securityControls,
\* extract_controls_by_id raises the structure error and leaves the document
\* as it was; main never calls the writer, the output path stays unwritten
\* and the exit status is 1.
C4_StructureError ==
    (calls = 1 /\ ~WellShaped(pre_heap, nist_data)) =>
        /\ raised = "ValueError"
        /\ heap = pre_heap
        /\ ~Extracted
        /\ report = NoReport
        /\ "save" \notin Range(steps)
        /\ outfile = Absent
        /\ Exited
        /\ exit_code = 1

\* a run whose document has a catalog without securityControls
C4_Witness ==
    /\ calls = 1
    /\ "catalog" \in DOMAIN pre_heap[nist_data]
    /\ ~WellShaped(pre_heap, nist_data)
    /\ Exited

----------------------------------------------------------------------------
(* C7 *)

\* C7: the not-found set is the set of requested identifiers minus the
\* controlIds of the returned controls; the warning is printed exactly when
\* it is not empty; not-found identifiers do not make the transform fail
\* (the transform fails only on a document it cannot filter, and a run that
\* got a document back ends with status 1 only when the writer failed) and
\* the controls kept are those kept for the identifiers that were found.
C7_NotFoundAdvisory ==
    /\ calls = 1 => (Extracted <=> Filterable)
    /\ Extracted =>
          /\ report.missing_ids =
                Range(control_ids) \ {ControlId(c).val : c \in Range(OutControls)}
          /\ report.warned <=> report.missing_ids # {}
          /\ OutControls = Keep(OrigControls, Range(control_ids) \ report.missing_ids)
          /\ Exited =>
                \/ exit_code = 0 /\ Written /\ raised = "none"
                        /\ outfile.val["catalog"].val["securityControls"].val = OutControls
                \/ exit_code = 1 /\ ~Written /\ raised = "Exception"
                        /\ steps[Len(steps)] = "save"

\* a run that warned about a missing identifier, kept a control, wrote it and
\* ended with status 0
C7_Witness ==
    /\ Exited
    /\ exit_code = 0
    /\ report.warned
    /\ Len(OutControls) >= 1
    /\ Written

----------------------------------------------------------------------------
(* C8 *)

\* C8: the collaborators are called in the order load, filter, write (then
\* the summary), each at most once; the writer is called only after load and
\* filter succeeded; the run ends with status 0 exactly when load, filter and
\* write all succeeded, otherwise with status 1 and with the failed step as
\* the last step executed.
C8_SinglePass ==
    /\ IsPrefix(steps, <<"load", "extract", "save", "summary">>)
    /\ "extract" \in Range(steps) => Loadable
    /\ "save" \in Range(steps) => (Loadable /\ Filterable /\ Extracted)
    /\ exit_code \in {-1, 0, 1}
    /\ Exited <=> exit_code # -1
    /\ Exited =>
          /\ exit_code = 0 <=> (Loadable /\ Filterable /\ Written)
          /\ exit_code = 0 => raised = "none"
          /\ exit_code = 1 =>
                /\ raised # "none"
                /\ steps = IF ~Loadable THEN <<"load">>
                           ELSE IF ~Filterable THEN <<"load", "extract">>
                           ELSE <<"load", "extract", "save">>

\* a run whose load and filter succeeded and whose write failed
C8_Witness ==
    /\ Exited
    /\ exit_code = 1
    /\ steps = <<"load", "extract", "save">>
    /\ Extracted

----------------------------------------------------------------------------
(* C9 *)

\* C9: the list handed to the filter is the explicitly supplied list whenever
\* one is supplied (an empty one included, which yields zero controls without
\* error), and the built-in list only when none is supplied.
C9_ExplicitListUsed ==
    /\ pc # "start" =>
          control_ids = IF args.controls.type = "list" THEN args.controls.val
                        ELSE TARGET_CONTROL_IDS
    /\ (Extracted /\ args.controls = PyList(<<>>)) => OutControls = <<>>

====
